---- MODULE Spec2Model ----
(***************************************************************************)
(* A model of GoRE (Zxilly/gore): the GoFile handle of file.go, the        *)
(* package classifiers and the PE container reader.                        *)
(*                                                                         *)
(* Go strings are sequences of one-character strings, so that prefix,      *)
(* substring, split and path operations are computed as the Go library     *)
(* computes them.                                                          *)
(***************************************************************************)
EXTENDS Integers, Sequences, FiniteSets, TLC

(***************************************************************************)
(* Strings                                                                 *)
(***************************************************************************)
NoStr == << >>

\* strings.HasPrefix
HasPrefix(s, p) == Len(p) <= Len(s) /\ SubSeq(s, 1, Len(p)) = p

\* strings.Index, 1-based; 0 when sub does not occur in s
Index(s, sub) ==
  LET hits == {i \in 1..(Len(s) - Len(sub) + 1) : SubSeq(s, i, i + Len(sub) - 1) = sub}
  IN IF hits = {} THEN 0 ELSE CHOOSE i \in hits : \A j \in hits : i <= j

\* strings.Contains
Contains(s, sub) == Index(s, sub) # 0

\* strings.Split(s, sep)[0] for a non-empty sep
SplitFirst(s, sep) ==
  IF Index(s, sep) = 0 THEN s ELSE SubSeq(s, 1, Index(s, sep) - 1)

\* position of the last "/" of s, 0 when there is none
LastSlash(s) ==
  LET hits == {i \in 1..Len(s) : s[i] = "/"}
  IN IF hits = {} THEN 0 ELSE CHOOSE i \in hits : \A j \in hits : j <= i

\* the elements of a path between its slashes, empty ones included
RECURSIVE Components(_)
Components(s) ==
  IF Index(s, <<"/">>) = 0 THEN <<s>>
  ELSE <<SubSeq(s, 1, Index(s, <<"/">>) - 1)>>
       \o Components(SubSeq(s, Index(s, <<"/">>) + 1, Len(s)))

\* path.Clean's walk over the elements: "" and "." are dropped, ".." removes
\* the element before it, or is dropped at the root, or is kept.
RECURSIVE CleanWalk(_, _, _)
CleanWalk(comps, out, rooted) ==
  IF comps = << >> THEN out
  ELSE LET c == Head(comps)
           rest == Tail(comps)
       IN IF c = NoStr \/ c = <<".">> THEN CleanWalk(rest, out, rooted)
          ELSE IF c = <<".", ".">>
            THEN IF out # << >> /\ out[Len(out)] # <<".", ".">>
                   THEN CleanWalk(rest, SubSeq(out, 1, Len(out) - 1), rooted)
                 ELSE IF rooted THEN CleanWalk(rest, out, rooted)
                 ELSE CleanWalk(rest, Append(out, c), rooted)
          ELSE CleanWalk(rest, Append(out, c), rooted)

RECURSIVE JoinSlash(_)
JoinSlash(comps) ==
  IF comps = << >> THEN NoStr
  ELSE IF Len(comps) = 1 THEN comps[1]
  ELSE comps[1] \o <<"/">> \o JoinSlash(Tail(comps))

\* path.Clean
PathClean(s) ==
  IF s = NoStr THEN <<".">>
  ELSE LET rooted == s[1] = "/"
           body == JoinSlash(CleanWalk(Components(s), << >>, rooted))
       IN IF rooted THEN <<"/">> \o body
          ELSE IF body = NoStr THEN <<".">> ELSE body

\* path.Dir: Clean of everything up to and including the last slash
PathDir(s) == PathClean(SubSeq(s, 1, LastSlash(s)))

\* s without its trailing slashes
RECURSIVE TrimSlashes(_)
TrimSlashes(s) ==
  IF s # NoStr /\ s[Len(s)] = "/" THEN TrimSlashes(SubSeq(s, 1, Len(s) - 1)) ELSE s

\* path.Base
PathBase(s) ==
  IF s = NoStr THEN <<".">>
  ELSE LET t == TrimSlashes(s)
           u == SubSeq(t, LastSlash(t) + 1, Len(t))
       IN IF u = NoStr THEN <<"/">> ELSE u

(***************************************************************************)
(* Packages and their classes                                              *)
(***************************************************************************)
ClassUnknown == "ClassUnknown"
ClassSTD == "ClassSTD"
ClassMain == "ClassMain"
ClassVendor == "ClassVendor"
ClassGenerated == "ClassGenerated"

PackageClass == {ClassUnknown, ClassSTD, ClassMain, ClassVendor, ClassGenerated}

\* The names the model writes out
S_main == <<"m", "a", "i", "n">>
S_type == <<"t", "y", "p", "e">>
S_typeDots == <<"t", "y", "p", "e", ".", ".">>
S_autogenerated ==
  <<"<", "a", "u", "t", "o", "g", "e", "n", "e", "r", "a", "t", "e", "d", ">">>
S_x86 == <<"_", "_", "x", "8", "6">>
S_i686 == <<"_", "_", "i", "6", "8", "6">>
S_cgo == <<"_", "c", "g", "o", "_">>
S_xcgo == <<"x", "_", "c", "g", "o", "_">>
S_atv == <<"@", "v">>
S_slashVendorSlash == <<"/", "v", "e", "n", "d", "o", "r", "/">>
S_vendorSlash == <<"v", "e", "n", "d", "o", "r", "/">>
S_slashGolangOrg == <<"/", "g", "o", "l", "a", "n", "g", ".", "o", "r", "g">>
S_runtime == <<"r", "u", "n", "t", "i", "m", "e">>
S_commandLineArguments ==
  <<"c", "o", "m", "m", "a", "n", "d", "-", "l", "i", "n", "e", "-",
    "a", "r", "g", "u", "m", "e", "n", "t", "s">>

knownRepos ==
  << <<"g", "o", "l", "a", "n", "g", ".", "o", "r", "g">>,
     <<"g", "i", "t", "h", "u", "b", ".", "c", "o", "m">>,
     <<"g", "i", "t", "l", "a", "b", ".", "c", "o", "m">> >>

\* The generated table of standard-library package names: the entries the
\* model's binaries use.
stdPkgs ==
  { <<"f", "m", "t">>, <<"o", "s">>, S_runtime, <<"n", "e", "t">> }

RECURSIVE IsStandardLibrary(_)
IsStandardLibrary(pkg) ==
  IF pkg \in stdPkgs THEN TRUE
  ELSE LET tmp == SplitFirst(pkg, <<".">>)
       IN Len(tmp) < Len(pkg) /\ IsStandardLibrary(tmp)

isGeneratedPackage(pkg) ==
  IF pkg.Filepath = S_autogenerated THEN TRUE
  ELSE IF pkg.Name = NoStr /\ pkg.Filepath = NoStr THEN TRUE
  ELSE IF pkg.Filepath = NoStr /\ (pkg.Name = S_x86 \/ pkg.Name = S_i686) THEN TRUE
  ELSE FALSE

\* a classifier whose main folders are the directory and the grandparent of
\* the main file path
NewPathPackageClassifierGrandparent(mainPkgFilepath) ==
  [mainFilepath |-> mainPkgFilepath,
   mainFolders |-> <<PathDir(mainPkgFilepath), PathDir(PathDir(mainPkgFilepath))>>]

\* NewPathPackageClassifier
NewPathPackageClassifier(mainPkgFilepath) ==
  [mainFilepath |-> mainPkgFilepath,
   mainFolders |-> <<PathDir(mainPkgFilepath), PathClean(mainPkgFilepath)>>]

\* PathPackageClassifier.Classify
PathClassify(c, pkg) ==
  LET tmp == SplitFirst(pkg.Name, S_slashGolangOrg)
      parentFolder == PathDir(pkg.Filepath)
  IN
  IF pkg.Name = S_type \/ HasPrefix(pkg.Name, S_typeDots) THEN ClassGenerated
  ELSE IF IsStandardLibrary(pkg.Name) THEN ClassSTD
  ELSE IF isGeneratedPackage(pkg) THEN ClassGenerated
  ELSE IF Len(tmp) < Len(pkg.Name) /\ IsStandardLibrary(tmp) THEN ClassSTD
  ELSE IF HasPrefix(pkg.Name, S_cgo) \/ HasPrefix(pkg.Name, S_xcgo) THEN ClassSTD
  ELSE IF Contains(pkg.Filepath, S_atv) THEN ClassVendor
  ELSE IF \/ HasPrefix(pkg.Filepath, c.mainFilepath \o S_slashVendorSlash)
          \/ HasPrefix(pkg.Filepath, PathDir(c.mainFilepath) \o S_slashVendorSlash)
          \/ HasPrefix(pkg.Filepath,
                       PathDir(PathDir(c.mainFilepath)) \o S_slashVendorSlash)
    THEN ClassVendor
  ELSE IF \E i \in 1..Len(c.mainFolders) : parentFolder = c.mainFolders[i]
    THEN ClassMain
  ELSE IF HasPrefix(pkg.Name, S_vendorSlash) THEN ClassVendor
  ELSE IF \E i \in 1..Len(knownRepos) :
            HasPrefix(pkg.Name, knownRepos[i]) /\ Contains(pkg.Filepath, knownRepos[i])
    THEN ClassVendor
  ELSE IF /\ ~Contains(pkg.Filepath, S_vendorSlash)
          /\ PathBase(PathDir(pkg.Filepath)) = PathBase(c.mainFilepath)
    THEN ClassMain
  ELSE IF pkg.Name = NoStr /\ PathBase(pkg.Filepath) = S_runtime THEN ClassSTD
  ELSE IF HasPrefix(pkg.Filepath, c.mainFilepath) THEN ClassMain
  ELSE IF /\ pkg.Name # NoStr
          /\ ~Contains(pkg.Name, <<"/">>)
          /\ Contains(c.mainFilepath, pkg.Name)
    THEN ClassMain
  ELSE IF c.mainFilepath = S_commandLineArguments THEN ClassMain
  ELSE ClassUnknown

\* NewModPackageClassifier
NewModPackageClassifier(buildInfo) == [modInfo |-> buildInfo]

\* The first dependency whose path prefixes the package's filepath or name; 0
\* when there is none.
FirstDep(deps, pkg) ==
  LET hits == {i \in 1..Len(deps) :
                 HasPrefix(pkg.Filepath, deps[i].Path) \/ HasPrefix(pkg.Name, deps[i].Path)}
  IN IF hits = {} THEN 0 ELSE CHOOSE i \in hits : \A j \in hits : i <= j

\* a classifier for which a dependency of version "(devel)" is a vendor
ModClassifyDevelVendor(c, pkg) ==
  IF IsStandardLibrary(pkg.Name) THEN ClassSTD
  ELSE IF pkg.Name = S_main THEN ClassMain
  ELSE IF /\ c.modInfo.Path # NoStr
          /\ (HasPrefix(pkg.Filepath, c.modInfo.Path) \/ HasPrefix(pkg.Name, c.modInfo.Path))
    THEN ClassMain
  ELSE IF /\ c.modInfo.Main.Path # NoStr
          /\ (\/ HasPrefix(pkg.Filepath, c.modInfo.Main.Path)
              \/ HasPrefix(pkg.Name, c.modInfo.Main.Path))
    THEN ClassMain
  ELSE IF FirstDep(c.modInfo.Deps, pkg) # 0 THEN ClassVendor
  ELSE IF isGeneratedPackage(pkg) THEN ClassGenerated
  ELSE IF HasPrefix(pkg.Name, S_cgo) \/ HasPrefix(pkg.Name, S_xcgo) THEN ClassSTD
  ELSE ClassVendor

\* ModPackageClassifier.Classify
ModClassify(c, pkg) ==
  IF IsStandardLibrary(pkg.Name) THEN ClassSTD
  ELSE IF pkg.Name = S_main THEN ClassMain
  ELSE IF /\ c.modInfo.Path # NoStr
          /\ (HasPrefix(pkg.Filepath, c.modInfo.Path) \/ HasPrefix(pkg.Name, c.modInfo.Path))
    THEN ClassMain
  ELSE IF /\ c.modInfo.Main.Path # NoStr
          /\ (\/ HasPrefix(pkg.Filepath, c.modInfo.Main.Path)
              \/ HasPrefix(pkg.Name, c.modInfo.Main.Path))
    THEN ClassMain
  ELSE IF FirstDep(c.modInfo.Deps, pkg) # 0
    THEN IF c.modInfo.Deps[FirstDep(c.modInfo.Deps, pkg)].Version = "(devel)"
           THEN ClassMain ELSE ClassVendor
  ELSE IF isGeneratedPackage(pkg) THEN ClassGenerated
  ELSE IF HasPrefix(pkg.Name, S_cgo) \/ HasPrefix(pkg.Name, S_xcgo) THEN ClassSTD
  ELSE ClassVendor

\* PackageClassifier.Classify: the classifier is one of the two
Classify(c, pkg) ==
  IF "modInfo" \in DOMAIN c THEN ModClassify(c, pkg) ELSE PathClassify(c, pkg)

(***************************************************************************)
(* Nullable values, errors                                                 *)
(***************************************************************************)
Nil == << >>
Some(v) == <<v>>

NoError == "nil"
ErrNoMainPackage == "no main package found"
ErrNoModuledata == "moduledata: not found"
ErrNoPCLNTab == "no pclntab located"
ErrNoGoVersion == "ErrNoGoVersionFound"

(***************************************************************************)
(* Bounds                                                                  *)
(***************************************************************************)
\* threads that use one GoFile
NThreads == 2
\* functions in a line table
MaxFuncs == 3
\* the instrumentation counters stop counting here
RunsCap == 2
\* the model's uint32 has U32Bits bits and its uint64 twice as many
U32Bits == 3
\* symbols in a COFF symbol table
MaxSyms == 2
\* bytes in a file that Open is given
MaxFileLen == 4

Threads == 1..NThreads

U32 == 2 ^ U32Bits
U64 == 2 ^ (2 * U32Bits)

Bump(n) == IF n < RunsCap THEN n + 1 ELSE n

(***************************************************************************)
(* The binaries: line-table symbols and build information                  *)
(***************************************************************************)
\* One gosym.Func: PackageName(), ReceiverName(), BaseName() and the file
\* PCToLine gives for its entry.
Sym(pkg, recv, base, file) == [pkg |-> pkg, recv |-> recv, base |-> base, file |-> file]

SymMain == Sym(S_main, "", "main", <<"/", "p", "/", "c", "/", "m", ".", "g", "o">>)
SymMainRun == Sym(S_main, "*T", "Run", <<"/", "p", "/", "c", "/", "t", ".", "g", "o">>)
SymFmt ==
  Sym(<<"f", "m", "t">>, "", "Println", <<"/", "g", "/", "f", "m", "t", "/", "p", ".", "g", "o">>)
SymVX ==
  Sym(<<"v", "/", "x">>, "", "F", <<"/", "m", "/", "x", "@", "v", "1", "/", "x", ".", "g", "o">>)
SymVY ==
  Sym(<<"v", "/", "y">>, "*R", "G", <<"/", "m", "/", "y", "@", "v", "2", "/", "y", ".", "g", "o">>)
SymGen == Sym(NoStr, "", "go.buildid", NoStr)
SymType == Sym(S_type, "", "eq", S_autogenerated)
SymZZ == Sym(<<"z", "z">>, "", "Z", <<"/", "q", "/", "z", "z", "/", "z", ".", "g", "o">>)
SymSub ==
  Sym(<<"c", "/", "s">>, "", "S", <<"/", "p", "/", "c", "/", "s", "/", "s", ".", "g", "o">>)

SymPool == {SymMain, SymMainRun, SymFmt, SymVX, SymVY, SymGen, SymType, SymZZ, SymSub}

\* The line table of the symbols q: the functions lie in address order, the
\* i-th at [i, i+1).
MkTable(q) ==
  [i \in 1..Len(q) |-> [pkg |-> q[i].pkg, recv |-> q[i].recv, base |-> q[i].base,
                        file |-> q[i].file, Entry |-> i, End |-> i + 1]]

\* The line tables of n functions
Tables(n) ==
  {MkTable(q) : q \in {r \in [1..n -> SymPool] : \A i, j \in 1..n : r[i] = r[j] => i = j}}

AllTables == UNION {Tables(n) : n \in 0..MaxFuncs}

\* debug.BuildInfo as the classifier reads it
ModInfos ==
  { [Path |-> <<"c">>, Main |-> [Path |-> <<"c">>],
     Deps |-> << [Path |-> <<"v", "/", "x">>, Version |-> "v1"],
                 [Path |-> <<"z">>, Version |-> "(devel)"] >>],
    [Path |-> NoStr, Main |-> [Path |-> NoStr], Deps |-> << >>] }

\* GoFile.BuildInfo after Open: nil, or with ModInfo nil, or with ModInfo
BuildInfos ==
  {Nil, Some([ModInfo |-> Nil])} \cup {Some([ModInfo |-> Some(m)]) : m \in ModInfos}

(***************************************************************************)
(* State                                                                   *)
(***************************************************************************)
VARIABLES
  f,      \* the GoFile
  bin,    \* what the binary holds: line table, moduledata, version; for Open,
          \* its bytes and what its parser makes of them
  pe,     \* the peFile behind the GoFile
  pc,     \* where each thread is
  op,     \* the call each thread is in
  loc,    \* each thread's local variables
  ret,    \* what each thread's last call returned
  runs,   \* instrumentation: how often each gate's body was started
  first   \* instrumentation: the lists and error at the first accessor return;
          \* for SetGoVersion, the version it stored last

gateVars == <<f, bin, pe, pc, op, loc, ret, runs, first>>

\* sort.StringSlice.Sort compares strings byte by byte
Alphabet ==
  <<"*", ".", "/", "1", "2", "<", ">", "@", "_", "a", "c", "d", "e", "f", "g",
    "i", "m", "n", "o", "p", "q", "r", "s", "t", "u", "v", "x", "y", "z">>

Rank(ch) == CHOOSE i \in 1..Len(Alphabet) : Alphabet[i] = ch

RECURSIVE StrLess(_, _)
StrLess(a, b) ==
  IF b = NoStr THEN FALSE
  ELSE IF a = NoStr THEN TRUE
  ELSE IF a[1] = b[1] THEN StrLess(Tail(a), Tail(b))
  ELSE Rank(a[1]) < Rank(b[1])

\* the sequence q of distinct strings, sorted
SortStrings(q) ==
  [i \in 1..Len(q) |->
     CHOOSE x \in {q[k] : k \in 1..Len(q)} :
       Cardinality({y \in {q[k] : k \in 1..Len(q)} : StrLess(y, x)}) = i - 1]

\* m with key k bound to v
MapPut(m, k, v) == [x \in DOMAIN m \cup {k} |-> IF x = k THEN v ELSE m[x]]

EmptyMap == [x \in {} |-> Nil]

Once == [done |-> FALSE, m |-> 0]

\* the locals of enumPackages, initSymTab and the callers of the gates
LocInit ==
  [err |-> NoError, tab |-> Nil, i |-> 1, packages |-> EmptyMap,
   allPackages |-> << >>, classifier |-> Nil, left |-> {},
   syms |-> << >>, addrs |-> << >>]

\* the accessors of the class lists and what each returns
Accessors ==
  {"GetPackages", "GetVendors", "GetSTDLib", "GetGeneratedPackages", "GetUnknown"}

ListOf(g, o) ==
  CASE o = "GetPackages" -> g.pkgs
    [] o = "GetVendors" -> g.vendors
    [] o = "GetSTDLib" -> g.stdPkgs
    [] o = "GetGeneratedPackages" -> g.generated
    [] o = "GetUnknown" -> g.unknown

Lists(g) == [o \in Accessors |-> ListOf(g, o)]

(***************************************************************************)
(* enumPackages                                                            *)
(***************************************************************************)
NewPackage == [Name |-> NoStr, Filepath |-> NoStr, Functions |-> << >>, Methods |-> << >>]

NewFunction(n) ==
  [Name |-> n.base, Offset |-> n.Entry, End |-> n.End, PackageName |-> n.pkg]

\* one round of the loop over tab.Funcs, on the locals l
AddFunc(l, n) ==
  LET ok == n.pkg \in DOMAIN l.packages
      p0 == IF ok THEN l.packages[n.pkg] ELSE NewPackage
      p1 == IF n.recv # ""
              THEN [p0 EXCEPT !.Methods =
                      Append(@, [Function |-> NewFunction(n), Receiver |-> n.recv])]
              ELSE [p0 EXCEPT !.Functions = Append(@, NewFunction(n))]
      p2 == IF ~ok
              THEN [p1 EXCEPT !.Filepath =
                      IF n.file = S_autogenerated \/ n.file = NoStr
                        THEN n.file ELSE PathDir(n.file)]
              ELSE p1
  IN [l EXCEPT !.packages = MapPut(l.packages, n.pkg, p2),
               !.allPackages = IF ok THEN @ ELSE Append(@, n.pkg),
               !.i = @ + 1]

\* a switch without the case of ClassUnknown
AppendByClassNoUnknown(g, class, p) ==
  CASE class = ClassSTD -> [g EXCEPT !.stdPkgs = Append(@, p)]
    [] class = ClassVendor -> [g EXCEPT !.vendors = Append(@, p)]
    [] class = ClassMain -> [g EXCEPT !.pkgs = Append(@, p)]
    [] class = ClassGenerated -> [g EXCEPT !.generated = Append(@, p)]
    [] OTHER -> g

\* the switch on the class: the list the package is appended to
AppendByClass(g, class, p) ==
  CASE class = ClassSTD -> [g EXCEPT !.stdPkgs = Append(@, p)]
    [] class = ClassVendor -> [g EXCEPT !.vendors = Append(@, p)]
    [] class = ClassMain -> [g EXCEPT !.pkgs = Append(@, p)]
    [] class = ClassUnknown -> [g EXCEPT !.unknown = Append(@, p)]
    [] class = ClassGenerated -> [g EXCEPT !.generated = Append(@, p)]
    [] OTHER -> g

\* a choice that asks for the main package before it looks at the BuildInfo
PickClassifierMainFirst(g, packages) ==
  IF S_main \notin DOMAIN packages THEN Nil
  ELSE IF g.BuildInfo # Nil /\ g.BuildInfo[1].ModInfo # Nil
    THEN Some(NewModPackageClassifier(g.BuildInfo[1].ModInfo[1]))
  ELSE Some(NewPathPackageClassifier(packages[S_main].Filepath))

\* the classifier enumPackages picks; Nil when there is none to pick
PickClassifier(g, packages) ==
  IF g.BuildInfo # Nil /\ g.BuildInfo[1].ModInfo # Nil
    THEN Some(NewModPackageClassifier(g.BuildInfo[1].ModInfo[1]))
  ELSE IF S_main \notin DOMAIN packages THEN Nil
  ELSE Some(NewPathPackageClassifier(packages[S_main].Filepath))

\* a Go map is ranged over in an order the language leaves open: any key not
\* yet visited may come next
RangeNext(left) == left

\* for _, n := range tab.Funcs
enumFuncs(t) ==
  /\ pc[t] = "enum_funcs"
  /\ loc[t].i <= Len(f.pclntab[1])
  /\ loc' = [loc EXCEPT ![t] = AddFunc(@, f.pclntab[1][loc[t].i])]
  /\ UNCHANGED <<f, bin, pe, pc, op, ret, runs, first>>

\* allPackages.Sort() and the choice of the classifier; without BuildInfo and
\* without a main package enumPackages returns its error
enumClassifier(t) ==
  /\ pc[t] = "enum_funcs"
  /\ loc[t].i > Len(f.pclntab[1])
  /\ LET c == PickClassifier(f, loc[t].packages)
     IN IF c = Nil
          THEN /\ f' = [f EXCEPT !.initPackagesError = ErrNoMainPackage]
               /\ loc' = [loc EXCEPT ![t].allPackages = SortStrings(@)]
               /\ pc' = [pc EXCEPT ![t] = "pkg_done"]
          ELSE /\ loc' = [loc EXCEPT ![t].allPackages = SortStrings(@),
                                     ![t].classifier = c,
                                     ![t].left = DOMAIN loc[t].packages]
               /\ pc' = [pc EXCEPT ![t] = "enum_range"]
               /\ f' = f
  /\ UNCHANGED <<bin, pe, op, ret, runs, first>>

\* for n, p := range packages
enumRange(t) ==
  /\ pc[t] = "enum_range"
  /\ \E n \in RangeNext(loc[t].left) :
       LET p == [loc[t].packages[n] EXCEPT !.Name = n]
           class == Classify(loc[t].classifier[1], p)
       IN /\ f' = AppendByClass(f, class, p)
          /\ loc' = [loc EXCEPT ![t].left = @ \ {n},
                                ![t].packages = MapPut(@, n, p)]
  /\ UNCHANGED <<bin, pe, pc, op, ret, runs, first>>

\* return nil, assigned to initPackagesError by initPackages
enumReturn(t) ==
  /\ pc[t] = "enum_range"
  /\ loc[t].left = {}
  /\ f' = [f EXCEPT !.initPackagesError = NoError]
  /\ pc' = [pc EXCEPT ![t] = "pkg_done"]
  /\ UNCHANGED <<bin, pe, op, loc, ret, runs, first>>

(***************************************************************************)
(* The calls of a thread                                                   *)
(***************************************************************************)
Goto(t, l) == pc' = [pc EXCEPT ![t] = l]

\* the call returns v to its caller
Return(t, v) ==
  /\ ret' = [ret EXCEPT ![t] = Some(v)]
  /\ pc' = [pc EXCEPT ![t] = "returned"]

\* the thread is between two calls
Idle(t) == pc[t] \in {"idle", "returned"}

GoFileOps == Accessors \cup {"Moduledata", "PCLNTab"}

\* where a call starts
Entry(o) ==
  IF o \in Accessors THEN "pkg_fast"
  ELSE IF o \in {"Moduledata", "PCLNTab"} THEN "md_fast"
  ELSE "sym_fast"

\* a thread calls a method of the GoFile
Call(t, o) ==
  /\ Idle(t)
  /\ op' = [op EXCEPT ![t] = [name |-> o, arg |-> ""]]
  /\ loc' = [loc EXCEPT ![t] = LocInit]
  /\ ret' = [ret EXCEPT ![t] = Nil]
  /\ Goto(t, Entry(o))
  /\ UNCHANGED <<f, bin, pe, runs, first>>

(***************************************************************************)
(* initModuleData: f.initModuleDataOnce.Do(...)                            *)
(***************************************************************************)
\* Once.Do: the body is skipped when done is set
initModuleDataFast(t) ==
  /\ pc[t] = "md_fast"
  /\ Goto(t, IF f.initModuleDataOnce.done THEN "md_ret" ELSE "md_lock")
  /\ UNCHANGED <<f, bin, pe, op, loc, ret, runs, first>>

\* Once.doSlow: the mutex is taken; a thread waits here while another has it
initModuleDataLock(t) ==
  /\ pc[t] = "md_lock"
  /\ f.initModuleDataOnce.m = 0
  /\ f' = [f EXCEPT !.initModuleDataOnce.m = t]
  /\ Goto(t, "md_slow")
  /\ UNCHANGED <<bin, pe, op, loc, ret, runs, first>>

\* Once.doSlow: done is read again under the mutex
initModuleDataSlow(t) ==
  /\ pc[t] = "md_slow"
  /\ IF f.initModuleDataOnce.done
       THEN Goto(t, "md_unlock") /\ runs' = runs
       ELSE /\ Goto(t, "md_version")
            /\ runs' = [runs EXCEPT !.moduledata = Bump(@)]
  /\ UNCHANGED <<f, bin, pe, op, loc, ret, first>>

\* ensureCompilerVersion, tryExtractCompilerVersion
ensureCompilerVersion(g) ==
  IF g.goversion = Nil
    THEN IF bin.version = Nil
           THEN [g EXCEPT !.versionError = ErrNoGoVersion]
           ELSE [g EXCEPT !.goversion = bin.version]
    ELSE g

\* the body: _ = f.ensureCompilerVersion()
initModuleDataVersion(t) ==
  /\ pc[t] = "md_version"
  /\ f' = ensureCompilerVersion(f)
  /\ Goto(t, "md_extract")
  /\ UNCHANGED <<bin, pe, op, loc, ret, runs, first>>

\* the body: f.moduledata, f.initModuleDataError = extractModuledata(...)
initModuleDataExtract(t) ==
  /\ pc[t] = "md_extract"
  /\ f' = [f EXCEPT !.moduledata = IF bin.moduledataErr = NoError THEN Some("moduledata") ELSE Nil,
                    !.initModuleDataError = bin.moduledataErr]
  /\ Goto(t, "md_done")
  /\ UNCHANGED <<bin, pe, op, loc, ret, runs, first>>

\* Once.doSlow: defer o.done.Store(1)
initModuleDataDone(t) ==
  /\ pc[t] = "md_done"
  /\ f' = [f EXCEPT !.initModuleDataOnce.done = TRUE]
  /\ Goto(t, "md_unlock")
  /\ UNCHANGED <<bin, pe, op, loc, ret, runs, first>>

\* Once.doSlow: defer o.m.Unlock()
initModuleDataUnlock(t) ==
  /\ pc[t] = "md_unlock"
  /\ f' = [f EXCEPT !.initModuleDataOnce.m = 0]
  /\ Goto(t, "md_ret")
  /\ UNCHANGED <<bin, pe, op, loc, ret, runs, first>>

\* return f.initModuleDataError: to Moduledata, which returns, or to PCLNTab
initModuleDataReturn(t) ==
  /\ pc[t] = "md_ret"
  /\ IF op[t].name = "Moduledata"
       THEN /\ Return(t, [op |-> "Moduledata",
                          val |-> IF f.initModuleDataError # NoError THEN Nil ELSE f.moduledata,
                          err |-> f.initModuleDataError])
            /\ loc' = loc
       ELSE /\ loc' = [loc EXCEPT ![t].err = f.initModuleDataError]
            /\ Goto(t, "pcln")
            /\ ret' = ret
  /\ UNCHANGED <<f, bin, pe, op, runs, first>>

(***************************************************************************)
(* PCLNTab                                                                 *)
(***************************************************************************)
\* a PCLNTab that goes on after initModuleData has failed
PCLNTabResultPastError(mdErr) ==
  IF bin.pclntabErr # NoError THEN [tab |-> Nil, err |-> bin.pclntabErr]
  ELSE [tab |-> Some(bin.funcs), err |-> NoError]

\* after initModuleData: its error, or getPCLNTABData and gosym.NewTable
PCLNTabResult(mdErr) ==
  IF mdErr # NoError THEN [tab |-> Nil, err |-> mdErr]
  ELSE IF bin.pclntabErr # NoError THEN [tab |-> Nil, err |-> bin.pclntabErr]
  ELSE [tab |-> Some(bin.funcs), err |-> NoError]

\* PCLNTab returns: to its caller, or to the body of initPackages
PCLNTab(t) ==
  /\ pc[t] = "pcln"
  /\ LET r == PCLNTabResult(loc[t].err)
     IN IF op[t].name = "PCLNTab"
          THEN /\ Return(t, [op |-> "PCLNTab", val |-> r.tab, err |-> r.err])
               /\ loc' = loc
          ELSE /\ loc' = [loc EXCEPT ![t].tab = r.tab, ![t].err = r.err]
               /\ Goto(t, "pkg_body")
               /\ ret' = ret
  /\ UNCHANGED <<f, bin, pe, op, runs, first>>

(***************************************************************************)
(* initPackages: f.initPackagesOnce.Do(...)                                *)
(***************************************************************************)
initPackagesFast(t) ==
  /\ pc[t] = "pkg_fast"
  /\ Goto(t, IF f.initPackagesOnce.done THEN "pkg_ret" ELSE "pkg_lock")
  /\ UNCHANGED <<f, bin, pe, op, loc, ret, runs, first>>

\* a gate whose mutex excludes nobody
initPackagesLockNoMutex(t) ==
  /\ pc[t] = "pkg_lock"
  /\ f' = [f EXCEPT !.initPackagesOnce.m = t]
  /\ Goto(t, "pkg_slow")
  /\ UNCHANGED <<bin, pe, op, loc, ret, runs, first>>

initPackagesLock(t) ==
  /\ pc[t] = "pkg_lock"
  /\ f.initPackagesOnce.m = 0
  /\ f' = [f EXCEPT !.initPackagesOnce.m = t]
  /\ Goto(t, "pkg_slow")
  /\ UNCHANGED <<bin, pe, op, loc, ret, runs, first>>

\* done is read again under the mutex; the body starts with tab, err := f.PCLNTab()
initPackagesSlow(t) ==
  /\ pc[t] = "pkg_slow"
  /\ IF f.initPackagesOnce.done
       THEN Goto(t, "pkg_unlock") /\ runs' = runs
       ELSE /\ Goto(t, "md_fast")
            /\ runs' = [runs EXCEPT !.packages = Bump(@)]
  /\ UNCHANGED <<f, bin, pe, op, loc, ret, first>>

\* the body after PCLNTab: its error is kept, or the table is and enumPackages runs
initPackagesBody(t) ==
  /\ pc[t] = "pkg_body"
  /\ IF loc[t].err # NoError
       THEN /\ f' = [f EXCEPT !.initPackagesError = loc[t].err]
            /\ Goto(t, "pkg_done")
            /\ runs' = runs
       ELSE /\ f' = [f EXCEPT !.pclntab = loc[t].tab]
            /\ Goto(t, "enum_funcs")
            /\ runs' = [runs EXCEPT !.enum = Bump(@)]
  /\ UNCHANGED <<bin, pe, op, loc, ret, first>>

\* a gate that forgets that its body ran
initPackagesDoneNotStored(t) ==
  /\ pc[t] = "pkg_done"
  /\ Goto(t, "pkg_unlock")
  /\ UNCHANGED <<f, bin, pe, op, loc, ret, runs, first>>

initPackagesDone(t) ==
  /\ pc[t] = "pkg_done"
  /\ f' = [f EXCEPT !.initPackagesOnce.done = TRUE]
  /\ Goto(t, "pkg_unlock")
  /\ UNCHANGED <<bin, pe, op, loc, ret, runs, first>>

initPackagesUnlock(t) ==
  /\ pc[t] = "pkg_unlock"
  /\ f' = [f EXCEPT !.initPackagesOnce.m = 0]
  /\ Goto(t, "pkg_ret")
  /\ UNCHANGED <<bin, pe, op, loc, ret, runs, first>>

\* err := f.initPackages(); return the accessor's list, err
GetList(t) ==
  /\ pc[t] = "pkg_ret"
  /\ Return(t, [op |-> op[t].name, val |-> ListOf(f, op[t].name),
                err |-> f.initPackagesError])
  /\ first' = IF first = Nil
                THEN Some([lists |-> Lists(f), err |-> f.initPackagesError])
                ELSE first
  /\ UNCHANGED <<f, bin, pe, op, loc, runs>>

(***************************************************************************)
(* peFile: the symbol table                                                *)
(***************************************************************************)
ErrInvalidSectionNumber == "invalid section number in symbol table"
ErrSymbolNotFound == "ErrSymbolNotFound"
ErrSectionDoesNotExist == "ErrSectionDoesNotExist"

NUndef == 0
NAbs == -1
NDebug == -2

\* the sequence of numbers q, ascending
SortInts(q) ==
  CHOOSE r \in [1..Len(q) -> {q[k] : k \in 1..Len(q)}] :
    /\ \A i, j \in 1..Len(q) : i < j => r[i] <= r[j]
    /\ \A v \in {q[k] : k \in 1..Len(q)} :
         Cardinality({i \in 1..Len(q) : r[i] = v}) = Cardinality({i \in 1..Len(q) : q[i] = v})

\* a check that is off by one
InvalidSectionNumberOffByOne(n, nsect) == n < 0 \/ nsect <= n

\* s.SectionNumber < 0 || len(p.file.Sections) < int(s.SectionNumber)
InvalidSectionNumber(n, nsect) == n < 0 \/ nsect < n

\* a loop that skips a symbol whose section number is invalid
SymStepSkip(l, s) ==
  IF s.SectionNumber \in {NUndef, NAbs, NDebug}
    THEN [l EXCEPT !.syms = Append(@, [Name |-> s.Name, Value |-> s.Value, Size |-> 0]),
                   !.addrs = Append(@, s.Value),
                   !.i = @ + 1]
  ELSE IF s.SectionNumber < 0 \/ Len(pe.Sections) < s.SectionNumber
    THEN [l EXCEPT !.i = @ + 1]
  ELSE LET sect == pe.Sections[s.SectionNumber]
           v == (s.Value + pe.imageBase + sect.VirtualAddress) % U64
       IN [l EXCEPT !.syms = Append(@, [Name |-> s.Name, Value |-> v, Size |-> 0]),
                    !.addrs = Append(@, v),
                    !.i = @ + 1]

\* one round of the loop over p.file.Symbols, on the locals l: the symbol is
\* appended, or err is set and the body returns
SymStep(l, s) ==
  IF s.SectionNumber \in {NUndef, NAbs, NDebug}
    THEN [l EXCEPT !.syms = Append(@, [Name |-> s.Name, Value |-> s.Value, Size |-> 0]),
                   !.addrs = Append(@, s.Value),
                   !.i = @ + 1]
  ELSE IF InvalidSectionNumber(s.SectionNumber, Len(pe.Sections))
    THEN [l EXCEPT !.err = ErrInvalidSectionNumber]
  ELSE LET sect == pe.Sections[s.SectionNumber]
           v == (s.Value + pe.imageBase + sect.VirtualAddress) % U64
       IN [l EXCEPT !.syms = Append(@, [Name |-> s.Name, Value |-> v, Size |-> 0]),
                    !.addrs = Append(@, v),
                    !.i = @ + 1]

\* sort.Search over the sorted addresses: the size of the symbol at value v
SymSize(addrs, v) ==
  LET above == {j \in 1..Len(addrs) : addrs[j] > v}
  IN IF above = {} THEN 0
     ELSE (addrs[CHOOSE j \in above : \A k \in above : j <= k] - v) % U64

\* p.symtab.table after the last two loops of the body
SymTable(table, syms, addrs) ==
  LET sorted == SortInts(addrs)
      names == {syms[k].Name : k \in 1..Len(syms)}
      last(n) == CHOOSE k \in 1..Len(syms) :
                   syms[k].Name = n /\ \A j \in 1..Len(syms) : syms[j].Name = n => j <= k
  IN [n \in DOMAIN table \cup names |->
        IF n \in names
          THEN [syms[last(n)] EXCEPT !.Size = SymSize(sorted, syms[last(n)].Value)]
          ELSE table[n]]

PEOps == {"hasSymbolTable", "getSymbol"}

\* a thread calls hasSymbolTable, or getSymbol for a name
CallPE(t, o, name) ==
  /\ Idle(t)
  /\ op' = [op EXCEPT ![t] = [name |-> o, arg |-> name]]
  /\ loc' = [loc EXCEPT ![t] = LocInit]
  /\ ret' = [ret EXCEPT ![t] = Nil]
  /\ Goto(t, Entry(o))
  /\ UNCHANGED <<f, bin, pe, runs, first>>

initSymTabFast(t) ==
  /\ pc[t] = "sym_fast"
  /\ Goto(t, IF pe.symtab.once.done THEN "sym_ret" ELSE "sym_lock")
  /\ UNCHANGED <<f, bin, pe, op, loc, ret, runs, first>>

initSymTabLock(t) ==
  /\ pc[t] = "sym_lock"
  /\ pe.symtab.once.m = 0
  /\ pe' = [pe EXCEPT !.symtab.once.m = t]
  /\ Goto(t, "sym_slow")
  /\ UNCHANGED <<f, bin, op, loc, ret, runs, first>>

initSymTabSlow(t) ==
  /\ pc[t] = "sym_slow"
  /\ IF pe.symtab.once.done
       THEN Goto(t, "sym_unlock") /\ runs' = runs
       ELSE /\ Goto(t, "sym_loop")
            /\ runs' = [runs EXCEPT !.symtab = Bump(@)]
  /\ UNCHANGED <<f, bin, pe, op, loc, ret, first>>

\* for _, s := range p.file.Symbols
initSymTabLoop(t) ==
  /\ pc[t] = "sym_loop"
  /\ loc[t].i <= Len(pe.Symbols)
  /\ LET l == SymStep(loc[t], pe.Symbols[loc[t].i])
     IN IF l.err # NoError
          THEN /\ pe' = [pe EXCEPT !.symtab.err = l.err]
               /\ Goto(t, "sym_done")
               /\ loc' = [loc EXCEPT ![t] = l]
          ELSE /\ loc' = [loc EXCEPT ![t] = l]
               /\ UNCHANGED <<pe, pc>>
  /\ UNCHANGED <<f, bin, op, ret, runs, first>>

\* the sizes, and the symbols put into p.symtab.table
initSymTabFill(t) ==
  /\ pc[t] = "sym_loop"
  /\ loc[t].i > Len(pe.Symbols)
  /\ pe' = [pe EXCEPT !.symtab.table = SymTable(@, loc[t].syms, loc[t].addrs)]
  /\ Goto(t, "sym_done")
  /\ UNCHANGED <<f, bin, op, loc, ret, runs, first>>

initSymTabDone(t) ==
  /\ pc[t] = "sym_done"
  /\ pe' = [pe EXCEPT !.symtab.once.done = TRUE]
  /\ Goto(t, "sym_unlock")
  /\ UNCHANGED <<f, bin, op, loc, ret, runs, first>>

initSymTabUnlock(t) ==
  /\ pc[t] = "sym_unlock"
  /\ pe' = [pe EXCEPT !.symtab.once.m = 0]
  /\ Goto(t, "sym_ret")
  /\ UNCHANGED <<f, bin, op, loc, ret, runs, first>>

\* hasSymbolTable after initSymTab
hasSymbolTable(p) ==
  IF p.symtab.err # NoError
    THEN [op |-> "hasSymbolTable", val |-> FALSE, err |-> p.symtab.err]
    ELSE [op |-> "hasSymbolTable", val |-> DOMAIN p.symtab.table # {}, err |-> NoError]

\* getSymbol after initSymTab
getSymbol(p, name) ==
  IF p.symtab.err # NoError
    THEN [op |-> "getSymbol", name |-> name, val |-> <<0, 0>>, err |-> p.symtab.err]
  ELSE IF name \notin DOMAIN p.symtab.table
    THEN [op |-> "getSymbol", name |-> name, val |-> <<0, 0>>, err |-> ErrSymbolNotFound]
  ELSE [op |-> "getSymbol", name |-> name,
        val |-> <<p.symtab.table[name].Value, p.symtab.table[name].Size>>,
        err |-> NoError]

\* err := p.initSymTab() returns, and so does its caller
initSymTabReturn(t) ==
  /\ pc[t] = "sym_ret"
  /\ Return(t, IF op[t].name = "hasSymbolTable"
                 THEN hasSymbolTable(pe) ELSE getSymbol(pe, op[t].arg))
  /\ UNCHANGED <<f, bin, pe, op, loc, runs, first>>

(***************************************************************************)
(* The GoFile and its threads                                              *)
(***************************************************************************)
\* the GoFile Open returns
NewGoFile(bi, gv) ==
  [BuildInfo |-> bi, goversion |-> gv,
   stdPkgs |-> << >>, generated |-> << >>, pkgs |-> << >>, vendors |-> << >>,
   unknown |-> << >>,
   pclntab |-> Nil,
   initPackagesOnce |-> Once, initPackagesError |-> NoError,
   moduledata |-> Nil, versionError |-> NoError,
   initModuleDataOnce |-> Once, initModuleDataError |-> NoError]

\* the peFile openPE returns
NewPEFile(base, sections, symbols) ==
  [imageBase |-> base, Sections |-> sections, Symbols |-> symbols,
   symtab |-> [once |-> Once, table |-> EmptyMap, err |-> NoError]]

Section(va, size, offset, dataErr) ==
  [VirtualAddress |-> va, Size |-> size, Offset |-> offset, dataErr |-> dataErr]

CoffSym(name, value, sect) == [Name |-> name, Value |-> value, SectionNumber |-> sect]

\* the PE files the threads meet: a symbol table in range, and one out of range
PEInRange ==
  NewPEFile(1, <<Section(2, 2, 1, NoError)>>, <<CoffSym("a", 1, 1), CoffSym("b", 0, NAbs)>>)
PEOutOfRange ==
  NewPEFile(1, <<Section(2, 2, 1, NoError)>>, <<CoffSym("a", 1, 1), CoffSym("b", 0, 2)>>)

SymNames == {"a", "b"}

Binary(bi, funcs, mdErr, pclnErr, version, p) ==
  [BuildInfo |-> bi, pe |-> p,
   bin |-> [funcs |-> funcs, moduledataErr |-> mdErr, pclntabErr |-> pclnErr,
            version |-> version]]

WithModInfo == Some([ModInfo |-> Some(CHOOSE m \in ModInfos : m.Path # NoStr)])

\* the binaries the threads meet: with a main package; without one, with and
\* without build information; without moduledata; without a line table;
\* without a version
GateBinaries ==
  { Binary(Nil, MkTable(<<SymMain, SymVX, SymVY>>), NoError, NoError, Some("go1.21"), PEInRange),
    Binary(Nil, MkTable(<<SymFmt, SymZZ>>), NoError, NoError, Some("go1.21"), PEOutOfRange),
    Binary(WithModInfo, MkTable(<<SymZZ, SymVX, SymFmt>>), NoError, NoError, Nil, PEInRange),
    Binary(Nil, MkTable(<<SymMain>>), ErrNoModuledata, NoError, Nil, PEOutOfRange),
    Binary(WithModInfo, MkTable(<<SymMain>>), NoError, ErrNoPCLNTab, Some("go1.21"), PEInRange) }

Init ==
  /\ \E b \in GateBinaries :
       /\ f = NewGoFile(b.BuildInfo, Nil)
       /\ bin = b.bin
       /\ pe = b.pe
  /\ pc = [t \in Threads |-> "idle"]
  /\ op = [t \in Threads |-> [name |-> "", arg |-> ""]]
  /\ loc = [t \in Threads |-> LocInit]
  /\ ret = [t \in Threads |-> Nil]
  /\ runs = [moduledata |-> 0, packages |-> 0, enum |-> 0, symtab |-> 0]
  /\ first = Nil

enumNext(t) ==
  \/ enumFuncs(t)
  \/ enumClassifier(t)
  \/ enumRange(t)
  \/ enumReturn(t)

initSymTabNext(t) ==
  \/ initSymTabFast(t)
  \/ initSymTabLock(t)
  \/ initSymTabSlow(t)
  \/ initSymTabLoop(t)
  \/ initSymTabFill(t)
  \/ initSymTabDone(t)
  \/ initSymTabUnlock(t)
  \/ initSymTabReturn(t)

Next ==
  \E t \in Threads :
    \/ \E o \in GoFileOps : Call(t, o)
    \/ \E n \in SymNames : CallPE(t, "getSymbol", n)
    \/ CallPE(t, "hasSymbolTable", "")
    \/ initModuleDataFast(t)
    \/ initModuleDataLock(t)
    \/ initModuleDataSlow(t)
    \/ initModuleDataVersion(t)
    \/ initModuleDataExtract(t)
    \/ initModuleDataDone(t)
    \/ initModuleDataUnlock(t)
    \/ initModuleDataReturn(t)
    \/ PCLNTab(t)
    \/ initPackagesFast(t)
    \/ initPackagesLock(t)
    \/ initPackagesSlow(t)
    \/ initPackagesBody(t)
    \/ enumNext(t)
    \/ initPackagesDone(t)
    \/ initPackagesUnlock(t)
    \/ GetList(t)
    \/ initSymTabNext(t)

vars == gateVars

Spec == Init /\ [][Next]_vars

(***************************************************************************)
(* The one-shot gates                                                      *)
(***************************************************************************)
Returned(t, ops) == pc[t] = "returned" /\ op[t].name \in ops

\* the thread is inside the body of the gate
InModuleDataBody(t) == pc[t] \in {"md_version", "md_extract"}
InPackagesBody(t) ==
  \/ pc[t] \in {"pkg_body", "enum_funcs", "enum_range"}
  \/ /\ op[t].name \in Accessors
     /\ pc[t] \in {"md_fast", "md_lock", "md_slow", "md_version", "md_extract",
                   "md_done", "md_unlock", "md_ret", "pcln"}
InSymTabBody(t) == pc[t] = "sym_loop"

\* PCLNTab gives initPackages a table
TableAvailable == bin.moduledataErr = NoError /\ bin.pclntabErr = NoError

\* the accessor returns what the first accessor return saw
SameAsFirst(t) ==
  /\ first # Nil
  /\ ret[t][1].err = first[1].err
  /\ ret[t][1].val = first[1].lists[op[t].name]

\* C1 as stated: over any calls of GetPackages, GetVendors, GetSTDLib,
\* GetGeneratedPackages and GetUnknown, enumPackages has run exactly once when
\* a call returns, every return gives the lists and the error of the first
\* return, and the lists do not change after it.
C1_EnumeratedExactlyOnce ==
  /\ runs.enum <= 1
  /\ first # Nil => Lists(f) = first[1].lists
  /\ \A t \in Threads :
       Returned(t, Accessors) => runs.enum = 1 /\ SameAsFirst(t)

\* C1, amended: the body of initPackages has run exactly once when an accessor
\* returns, and enumPackages once if PCLNTab gave a table and never if it did
\* not; every return gives the lists and the error of the first return, and
\* the lists do not change after it.
C1_InitializedExactlyOnce ==
  /\ runs.enum <= 1
  /\ runs.packages <= 1
  /\ first # Nil => Lists(f) = first[1].lists
  /\ \A t \in Threads :
       Returned(t, Accessors) =>
         /\ runs.packages = 1
         /\ runs.enum = (IF TableAvailable THEN 1 ELSE 0)
         /\ SameAsFirst(t)

\* C1's case: two accessors have returned lists that are not empty, after one
\* enumeration
C1_Witness ==
  \E t, u \in Threads :
    /\ t # u
    /\ Returned(t, Accessors) /\ Returned(u, Accessors)
    /\ op[t].name # op[u].name
    /\ ret[t][1].val # << >>
    /\ ret[u][1].val # << >>
    /\ runs.enum = 1

\* C2: of the threads that meet at a gate (initModuleData, initPackages,
\* initSymTab) one runs the body, once; a thread reads the gate's result only
\* after the body has run and while no thread is in it; and the threads that
\* return from the same call return the same value and error, the accessors
\* of the class lists the same error.
C2_OneThreadInitializes ==
  /\ runs.moduledata <= 1 /\ runs.packages <= 1 /\ runs.symtab <= 1
  /\ Cardinality({t \in Threads : InModuleDataBody(t)}) <= 1
  /\ Cardinality({t \in Threads : InPackagesBody(t)}) <= 1
  /\ Cardinality({t \in Threads : InSymTabBody(t)}) <= 1
  /\ \A t \in Threads :
       /\ pc[t] = "md_ret" =>
            runs.moduledata = 1 /\ \A u \in Threads : ~InModuleDataBody(u)
       /\ pc[t] = "pkg_ret" =>
            runs.packages = 1 /\ \A u \in Threads : ~InPackagesBody(u)
       /\ pc[t] = "sym_ret" =>
            runs.symtab = 1 /\ \A u \in Threads : ~InSymTabBody(u)
  /\ \A t, u \in Threads :
       /\ pc[t] = "returned" /\ pc[u] = "returned" /\ op[t] = op[u] => ret[t] = ret[u]
       /\ Returned(t, Accessors) /\ Returned(u, Accessors) =>
            ret[t][1].err = ret[u][1].err

\* C2's case: a thread that found each gate not done holds its mutex after
\* another thread ran the body, and finds it done
C2_Witness ==
  \E t, u \in Threads :
    /\ t # u
    /\ pc[t] = "pkg_slow" /\ f.initPackagesOnce.done
    /\ Returned(u, Accessors)
    /\ runs.packages = 1

\* the thread waits for a mutex that another thread holds
WaitsFor(t, h) ==
  /\ h # t
  /\ \/ pc[t] = "md_lock" /\ f.initModuleDataOnce.m = h
     \/ pc[t] = "pkg_lock" /\ f.initPackagesOnce.m = h

\* the thread is inside enumPackages
Enumerating(t) == pc[t] \in {"enum_funcs", "enum_range"}

\* C15: a thread is inside enumPackages only after initModuleData has
\* completed, without error. A thread that holds the mutex of the moduledata
\* gate is inside that gate and waits for no mutex; no thread waits for a mutex
\* it holds, and among the threads there is no circle of threads that wait for
\* each other: every set of threads has one that waits for none of the set.
\* When initModuleData has failed, every accessor of the class lists and every
\* PCLNTab call returns its error, enumPackages has not run and the lists are
\* empty.
C15_ModuledataFirst ==
  /\ \A t \in Threads :
       /\ Enumerating(t) =>
            f.initModuleDataOnce.done /\ f.initModuleDataError = NoError
       /\ f.initModuleDataOnce.m = t =>
            pc[t] \in {"md_slow", "md_version", "md_extract", "md_done", "md_unlock"}
       /\ pc[t] = "md_lock" => f.initModuleDataOnce.m # t
       /\ pc[t] = "pkg_lock" => f.initPackagesOnce.m # t
  /\ \A S \in SUBSET Threads \ {{}} :
       \E t \in S : \A h \in S : ~WaitsFor(t, h)
  /\ f.initModuleDataOnce.done /\ f.initModuleDataError # NoError =>
       /\ runs.enum = 0
       /\ \A o \in Accessors : ListOf(f, o) = << >>
       /\ \A t \in Threads :
            Returned(t, Accessors \cup {"PCLNTab"}) =>
              ret[t][1].err = f.initModuleDataError

\* C15's case: moduledata is missing; one thread's accessor and the other
\* thread's PCLNTab have both returned the moduledata error; the body of
\* initPackages ran and enumPackages did not
C15_Witness ==
  \E t, u \in Threads :
    /\ t # u
    /\ Returned(t, Accessors) /\ ret[t][1].err = ErrNoModuledata
    /\ Returned(u, {"PCLNTab"}) /\ ret[u][1].err = ErrNoModuledata
    /\ f.initModuleDataError = ErrNoModuledata
    /\ runs.packages = 1 /\ runs.enum = 0

(***************************************************************************)
(* enumPackages on every line table                                        *)
(***************************************************************************)
\* Thread 1 is in the body of initPackages, PCLNTab has returned the table and
\* enumPackages starts.
InitEnum ==
  /\ \E tab \in AllTables, bi \in BuildInfos :
       /\ f = [NewGoFile(bi, Some("go1.21")) EXCEPT
                 !.moduledata = Some("moduledata"),
                 !.initModuleDataOnce.done = TRUE,
                 !.initPackagesOnce.m = 1,
                 !.pclntab = Some(tab)]
       /\ bin = [funcs |-> tab, moduledataErr |-> NoError, pclntabErr |-> NoError,
                 version |-> Some("go1.21")]
  /\ pe = PEInRange
  /\ pc = [t \in Threads |-> IF t = 1 THEN "enum_funcs" ELSE "idle"]
  /\ op = [t \in Threads |-> [name |-> IF t = 1 THEN "GetPackages" ELSE "", arg |-> ""]]
  /\ loc = [t \in Threads |-> LocInit]
  /\ ret = [t \in Threads |-> Nil]
  /\ runs = [moduledata |-> 1, packages |-> 1, enum |-> 1, symtab |-> 0]
  /\ first = Nil

NextEnum == \E t \in Threads : enumNext(t)

SpecEnum == InitEnum /\ [][NextEnum]_vars

\* enumPackages has returned nil
Enumerated == pc[1] = "pkg_done" /\ f.initPackagesError = NoError

AllLists == f.stdPkgs \o f.pkgs \o f.vendors \o f.generated \o f.unknown

\* the package names of the line table, in the order of their first functions
RECURSIVE InsertionOrder(_)
InsertionOrder(tab) ==
  IF tab = << >> THEN << >>
  ELSE LET before == InsertionOrder(SubSeq(tab, 1, Len(tab) - 1))
           n == tab[Len(tab)].pkg
       IN IF \E k \in 1..Len(before) : before[k] = n THEN before ELSE Append(before, n)

NamesOf(list) == [k \in 1..Len(list) |-> list[k].Name]

\* the names of q that are in list, in q's order
Restrict(q, list) ==
  LET In(n) == \E k \in 1..Len(list) : list[k].Name = n
  IN SelectSeq(q, In)

\* C4: after enumPackages the packages of each class list stand in the order
\* in which their names first occur in the line table, whatever the order in
\* which the map of packages was ranged over.
C4_InsertionOrder ==
  Enumerated =>
    \A o \in Accessors :
      NamesOf(ListOf(f, o)) = Restrict(InsertionOrder(bin.funcs), ListOf(f, o))

\* the functions and methods of package p
Members(p) ==
  p.Functions \o [k \in 1..Len(p.Methods) |-> p.Methods[k].Function]

\* C10: after a successful enumPackages every package of the line table is in
\* exactly one place of the five class lists, and every function of the line
\* table is in exactly one place of the lists of exactly one package, whose
\* Name is the function's PackageName.
C10_OneClassOnePackage ==
  Enumerated =>
    /\ \A i \in 1..Len(bin.funcs) :
         Cardinality({k \in 1..Len(AllLists) : AllLists[k].Name = bin.funcs[i].pkg}) = 1
    /\ \A k \in 1..Len(AllLists) :
         \E i \in 1..Len(bin.funcs) : AllLists[k].Name = bin.funcs[i].pkg
    /\ \A i \in 1..Len(bin.funcs) :
         Cardinality({kj \in {<<k, j>> : k \in 1..Len(AllLists), j \in 1..Len(bin.funcs)} :
                        /\ kj[2] <= Len(Members(AllLists[kj[1]]))
                        /\ Members(AllLists[kj[1]])[kj[2]].Offset = bin.funcs[i].Entry}) = 1
    /\ \A k \in 1..Len(AllLists) :
         \A j \in 1..Len(Members(AllLists[k])) :
           /\ Members(AllLists[k])[j].PackageName = AllLists[k].Name
           /\ \E i \in 1..Len(bin.funcs) :
                /\ bin.funcs[i].Entry = Members(AllLists[k])[j].Offset
                /\ bin.funcs[i].pkg = AllLists[k].Name
                /\ bin.funcs[i].base = Members(AllLists[k])[j].Name

\* C10's case: two packages of two classes, one of them with a function and a
\* method
C10_Witness ==
  /\ Enumerated
  /\ Len(f.pkgs) = 1 /\ Len(f.unknown) = 1
  /\ Len(f.pkgs[1].Functions) = 1 /\ Len(f.pkgs[1].Methods) = 1

\* the classifier enumPackages has picked, once it has picked one
Picked == pc[1] \in {"enum_range", "pkg_done"} /\ loc[1].classifier # Nil
PickedMod == Picked /\ "modInfo" \in DOMAIN loc[1].classifier[1]
PickedPath == Picked /\ "mainFolders" \in DOMAIN loc[1].classifier[1]

\* the line table has a function of package main
HasMain == \E i \in 1..Len(bin.funcs) : bin.funcs[i].pkg = S_main

\* enumPackages has ended, with nil or with an error
EnumEnded == pc[1] = "pkg_done"

\* C11 as stated: the module-info classifier is picked whenever BuildInfo is
\* there and the path-based one only when it is not; "no main package found",
\* with the five lists empty, is returned only without BuildInfo, and with
\* BuildInfo there is no error.
C11_ClassifierByBuildInfo ==
  /\ PickedMod <=> Picked /\ f.BuildInfo # Nil
  /\ PickedPath <=> Picked /\ f.BuildInfo = Nil
  /\ EnumEnded =>
       /\ f.initPackagesError = ErrNoMainPackage <=> f.BuildInfo = Nil /\ ~HasMain
       /\ f.initPackagesError = ErrNoMainPackage => AllLists = << >>
       /\ f.BuildInfo # Nil => f.initPackagesError = NoError

\* the BuildInfo is there and has its ModInfo
HasModInfo == f.BuildInfo # Nil /\ f.BuildInfo[1].ModInfo # Nil

\* C11, amended: one classifier is picked: the module-info classifier when
\* BuildInfo and its ModInfo are there, the path-based one otherwise, a
\* BuildInfo without ModInfo included. Only when the path-based one is to be
\* picked and the line table has no main package, enumPackages returns "no
\* main package found" and the five lists stay empty; with ModInfo a missing
\* main package is no error.
C11_ClassifierByModInfo ==
  /\ PickedMod <=> Picked /\ HasModInfo
  /\ PickedPath <=> Picked /\ ~HasModInfo
  /\ EnumEnded =>
       /\ f.initPackagesError = ErrNoMainPackage <=> ~HasModInfo /\ ~HasMain
       /\ f.initPackagesError = ErrNoMainPackage => AllLists = << >> /\ ~Picked
       /\ f.initPackagesError # ErrNoMainPackage =>
            f.initPackagesError = NoError /\ Picked

\* C11's case: a BuildInfo without ModInfo and a line table without main:
\* enumPackages has returned the error
C11_Witness ==
  /\ EnumEnded
  /\ f.BuildInfo # Nil /\ ~HasModInfo /\ ~HasMain
  /\ Len(bin.funcs) = 2
  /\ f.initPackagesError = ErrNoMainPackage

(***************************************************************************)
(* The symbol table of every PE file                                       *)
(***************************************************************************)
\* COFF symbols: section numbers from below NDebug to beyond the two sections
CoffSyms ==
  {CoffSym(n, v, k) : n \in SymNames, v \in {0, 1}, k \in -3..3}

SymTabs == UNION {[1..n -> CoffSyms] : n \in 0..MaxSyms}

\* One thread calls hasSymbolTable and getSymbol, one call after the other.
InitSymTab ==
  /\ \E syms \in SymTabs :
       pe = NewPEFile(1, <<Section(2, 2, 1, NoError), Section(4, 3, 3, NoError)>>, syms)
  /\ f = NewGoFile(Nil, Nil)
  /\ bin = [funcs |-> << >>, moduledataErr |-> NoError, pclntabErr |-> NoError,
            version |-> Nil]
  /\ pc = [t \in Threads |-> "idle"]
  /\ op = [t \in Threads |-> [name |-> "", arg |-> ""]]
  /\ loc = [t \in Threads |-> LocInit]
  /\ ret = [t \in Threads |-> Nil]
  /\ runs = [moduledata |-> 0, packages |-> 0, enum |-> 0, symtab |-> 0]
  /\ first = Nil

NextSymTab ==
  \/ \E n \in SymNames : CallPE(1, "getSymbol", n)
  \/ CallPE(1, "hasSymbolTable", "")
  \/ initSymTabNext(1)

SpecSymTab == InitSymTab /\ [][NextSymTab]_vars

NSections == Len(pe.Sections)

\* a symbol refers to a section beyond the last
BeyondSections == \E k \in 1..Len(pe.Symbols) : pe.Symbols[k].SectionNumber > NSections

\* a symbol's section number is none of 0, -1, -2, 1..NSections
OutOfRange(s) == s.SectionNumber < NDebug \/ s.SectionNumber > NSections

\* the last symbol named n
LastNamed(n) ==
  CHOOSE k \in 1..Len(pe.Symbols) :
    /\ pe.Symbols[k].Name = n
    /\ \A j \in 1..Len(pe.Symbols) : pe.Symbols[j].Name = n => j <= k

\* the value getSymbol is to give for symbol s: biased by the image base and
\* the section's address, or as it stands in the file
ValueOf(s) ==
  IF s.SectionNumber \in {0, -1, -2} THEN s.Value
  ELSE (s.Value + pe.imageBase + pe.Sections[s.SectionNumber].VirtualAddress) % U64

\* C8: when a symbol's section index is greater than the number of sections,
\* every hasSymbolTable and every getSymbol returns the error "invalid section
\* number in symbol table", at the first call and at every later one, and the
\* table stays empty; when all section indices are within -2..number of
\* sections no call returns that error, and getSymbol gives the value biased
\* for an index in 1..number of sections and unbiased for 0, -1 and -2.
C8_SectionIndexBeyond ==
  /\ BeyondSections =>
       /\ DOMAIN pe.symtab.table = {}
       /\ Returned(1, PEOps) =>
            /\ ret[1][1].err = ErrInvalidSectionNumber
            /\ op[1].name = "hasSymbolTable" => ret[1][1].val = FALSE
  /\ (\A k \in 1..Len(pe.Symbols) : ~OutOfRange(pe.Symbols[k])) =>
       /\ Returned(1, PEOps) => ret[1][1].err # ErrInvalidSectionNumber
       /\ Returned(1, {"hasSymbolTable"}) =>
            ret[1][1].err = NoError /\ ret[1][1].val = (pe.Symbols # << >>)
       /\ Returned(1, {"getSymbol"}) =>
            IF \E k \in 1..Len(pe.Symbols) : pe.Symbols[k].Name = op[1].arg
              THEN /\ ret[1][1].err = NoError
                   /\ ret[1][1].val[1] = ValueOf(pe.Symbols[LastNamed(op[1].arg)])
              ELSE ret[1][1].err = ErrSymbolNotFound

\* C8's case: a call after the first returns the error of a table whose second
\* symbol is beyond the sections and whose first is in the last section
C8_Witness ==
  /\ BeyondSections
  /\ Len(pe.Symbols) = 2 /\ pe.Symbols[1].SectionNumber = NSections
  /\ Returned(1, {"hasSymbolTable"})
  /\ ret[1][1].err = ErrInvalidSectionNumber
  /\ loc[1].err = NoError
  /\ runs.symtab = 1

\* C9 as stated: a symbol with an out-of-range section index is skipped;
\* hasSymbolTable reports success and every symbol with a valid section index
\* is resolved by getSymbol.
C9_SymbolSkipped ==
  /\ Returned(1, {"hasSymbolTable"}) => ret[1][1].err = NoError
  /\ Returned(1, {"getSymbol"}) =>
       ((\E k \in 1..Len(pe.Symbols) :
           pe.Symbols[k].Name = op[1].arg /\ ~OutOfRange(pe.Symbols[k]))
        => ret[1][1].err = NoError)

\* C9, amended: a symbol with an out-of-range section index fails the whole
\* symbol table; getSymbol resolves no symbol, not those with a valid section
\* index either, and hasSymbolTable reports the error.
C9_OutOfRangeFailsAll ==
  (\E k \in 1..Len(pe.Symbols) : OutOfRange(pe.Symbols[k])) =>
    /\ Returned(1, {"getSymbol"}) =>
         ret[1][1].val = <<0, 0>> /\ ret[1][1].err = ErrInvalidSectionNumber
    /\ Returned(1, {"hasSymbolTable"}) =>
         ret[1][1].val = FALSE /\ ret[1][1].err = ErrInvalidSectionNumber
    /\ \A n \in SymNames : n \notin DOMAIN pe.symtab.table

\* C9's case: getSymbol fails for the name of a symbol with a valid section
\* index that stands before a symbol with an invalid one
C9_Witness ==
  /\ Len(pe.Symbols) = 2
  /\ pe.Symbols[1].SectionNumber = 1 /\ pe.Symbols[1].Name = "a"
  /\ pe.Symbols[2].SectionNumber = -3 /\ pe.Symbols[2].Name = "b"
  /\ Returned(1, {"getSymbol"}) /\ op[1].arg = "a"
  /\ ret[1][1].err = ErrInvalidSectionNumber

(***************************************************************************)
(* GoFile.Bytes and peFile.getSectionDataFromAddress                       *)
(***************************************************************************)
ErrOutOfBounds == "length out of bounds"
ErrData == "section data: unexpected EOF"

\* section.Data(): the bytes of the section, each written as the address it is
\* loaded at, or the error of reading them
SectionData(p, sect) ==
  IF sect.dataErr # NoError THEN [data |-> << >>, err |-> sect.dataErr]
  ELSE [data |-> [k \in 1..sect.Size |->
                    (p.imageBase + sect.VirtualAddress + k - 1) % U64],
        err |-> NoError]

\* a range check that takes in the address after the section's last
SectionHoldsInclusive(p, sect, address) ==
  /\ sect.Offset # 0
  /\ (p.imageBase + sect.VirtualAddress) % U64 <= address
  /\ address <= (p.imageBase + ((sect.VirtualAddress + sect.Size) % U32)) % U64

\* the section is in the file and address lies in it: the sum of the uint32s
\* VirtualAddress and Size, widened and added to the image base
SectionHolds(p, sect, address) ==
  /\ sect.Offset # 0
  /\ (p.imageBase + sect.VirtualAddress) % U64 <= address
  /\ address < (p.imageBase + ((sect.VirtualAddress + sect.Size) % U32)) % U64

\* peFile.getSectionDataFromAddress
getSectionDataFromAddress(p, address) ==
  LET hits == {k \in 1..Len(p.Sections) : SectionHolds(p, p.Sections[k], address)}
  IN IF hits = {}
       THEN [base |-> 0, data |-> << >>, err |-> ErrSectionDoesNotExist]
       ELSE LET sect == p.Sections[CHOOSE k \in hits : \A j \in hits : k <= j]
            IN [base |-> (p.imageBase + sect.VirtualAddress) % U64,
                data |-> SectionData(p, sect).data,
                err |-> SectionData(p, sect).err]

\* GoFile.Bytes: bytes and nil, nil and an error, or the run-time panic of a
\* slice expression whose bounds are out of range
Bytes(p, address, length) ==
  LET r == getSectionDataFromAddress(p, address)
      lo == (address - r.base) % U64
      hi == (address + length - r.base) % U64
  IN IF r.err # NoError THEN [kind |-> "err", val |-> << >>, err |-> r.err]
     ELSE IF hi > Len(r.data) THEN [kind |-> "err", val |-> << >>, err |-> ErrOutOfBounds]
     ELSE IF lo <= hi /\ hi <= Len(r.data)
       THEN [kind |-> "ok", val |-> SubSeq(r.data, lo + 1, hi), err |-> NoError]
     ELSE [kind |-> "panic", val |-> << >>, err |-> "slice bounds out of range"]

\* a thread calls Bytes; a panic ends the program
CallBytes(t) ==
  /\ pc[t] = "idle"
  /\ \E address \in 0..(U64 - 1), length \in 0..(U64 - 1) :
       /\ op' = [op EXCEPT ![t] = [name |-> "Bytes", arg |-> <<address, length>>]]
       /\ ret' = [ret EXCEPT ![t] = Some(Bytes(pe, address, length))]
       /\ pc' = [pc EXCEPT ![t] = IF Bytes(pe, address, length).kind = "panic"
                                    THEN "panic" ELSE "returned"]
  /\ UNCHANGED <<f, bin, pe, loc, runs, first>>

\* a thread asks the container reader for the section at an address
CallSectionAt(t) ==
  /\ pc[t] = "idle"
  /\ \E address \in 0..(U64 - 1) :
       /\ op' = [op EXCEPT ![t] = [name |-> "getSectionDataFromAddress",
                                   arg |-> <<address, 0>>]]
       /\ ret' = [ret EXCEPT ![t] = Some(getSectionDataFromAddress(pe, address))]
  /\ pc' = [pc EXCEPT ![t] = "returned"]
  /\ UNCHANGED <<f, bin, pe, loc, runs, first>>

\* the caller has taken the result and goes on
Resume(t) ==
  /\ pc[t] = "returned"
  /\ pc' = [pc EXCEPT ![t] = "idle"]
  /\ ret' = [ret EXCEPT ![t] = Nil]
  /\ op' = [op EXCEPT ![t] = [name |-> "", arg |-> ""]]
  /\ UNCHANGED <<f, bin, pe, loc, runs, first>>

\* PE files by their sections: two that touch; one alone, one only in memory
\* and one whose data cannot be read; one whose end passes the uint32; one
\* whose end passes the uint64
BytesPEs ==
  { NewPEFile(U32, <<Section(2, 3, 1, NoError), Section(5, 2, 4, NoError)>>, << >>),
    NewPEFile(U32, <<Section(1, 2, 1, NoError), Section(4, 1, 0, NoError),
                     Section(6, 1, 3, ErrData)>>, << >>),
    NewPEFile(U32, <<Section(U32 - 2, 3, 1, NoError)>>, << >>),
    NewPEFile(U64 - 4, <<Section(1, 4, 1, NoError)>>, << >>) }

InitBytes ==
  /\ pe \in BytesPEs
  /\ f = NewGoFile(Nil, Nil)
  /\ bin = [funcs |-> << >>, moduledataErr |-> NoError, pclntabErr |-> NoError,
            version |-> Nil]
  /\ pc = [t \in Threads |-> "idle"]
  /\ op = [t \in Threads |-> [name |-> "", arg |-> ""]]
  /\ loc = [t \in Threads |-> LocInit]
  /\ ret = [t \in Threads |-> Nil]
  /\ runs = [moduledata |-> 0, packages |-> 0, enum |-> 0, symtab |-> 0]
  /\ first = Nil

NextBytes ==
  \/ CallBytes(1)
  \/ CallSectionAt(1)
  \/ Resume(1)

SpecBytes == InitBytes /\ [][NextBytes]_vars

\* the call of Bytes has ended, by a return or by a panic
BytesEnded == op[1].name = "Bytes" /\ pc[1] \in {"returned", "panic"}

\* C6: Bytes(address, length) returns the length bytes at address, address+1,
\* ..., or an error; it returns no other slice and does not panic, whatever
\* address + length is modulo 2^64.
C6_ExactOrError ==
  BytesEnded =>
    \/ ret[1][1].kind = "err" /\ ret[1][1].err # NoError
    \/ /\ ret[1][1].kind = "ok"
       /\ ret[1][1].val = [i \in 1..op[1].arg[2] |-> (op[1].arg[1] + i - 1) % U64]

\* the sections that are in the file and whose end, base + len, is address
EndsAt(address) ==
  {k \in 1..Len(pe.Sections) :
     /\ pe.Sections[k].Offset # 0
     /\ pe.Sections[k].dataErr = NoError
     /\ address = (pe.imageBase + pe.Sections[k].VirtualAddress + pe.Sections[k].Size) % U64}

BaseOf(k) == (pe.imageBase + pe.Sections[k].VirtualAddress) % U64

\* C7 as stated: Bytes at the address base + len of a section gives the
\* out-of-bounds error, for every length.
C7_OutOfBoundsAtEnd ==
  BytesEnded /\ EndsAt(op[1].arg[1]) # {} =>
    ret[1][1].kind = "err" /\ ret[1][1].err = ErrOutOfBounds

\* C7, amended: the address base + len of a section is not an address of that
\* section. The section-at request and Bytes, for every length, give
\* section-missing when no other section holds the address; otherwise they
\* are answered from the section that holds it, and Bytes of length 0 gives no
\* out-of-bounds error.
C7_SectionMissingAtEnd ==
  pc[1] \in {"returned", "panic"} /\ op[1].name \in {"Bytes", "getSectionDataFromAddress"}
  /\ EndsAt(op[1].arg[1]) # {} =>
    LET r == getSectionDataFromAddress(pe, op[1].arg[1])
    IN /\ r.err = NoError => \A k \in EndsAt(op[1].arg[1]) : r.base # BaseOf(k)
       /\ (\A k \in 1..Len(pe.Sections) :
             pe.Sections[k].Offset = 0 \/ k \in EndsAt(op[1].arg[1])
             \/ op[1].arg[1] < BaseOf(k)) =>
            ret[1][1].err = ErrSectionDoesNotExist
       /\ op[1].name = "Bytes" /\ op[1].arg[2] = 0 => ret[1][1].err # ErrOutOfBounds

\* C7's case: Bytes of length 0 at the end of a section that no other section
\* touches has returned section-missing
C7_Witness ==
  /\ BytesEnded
  /\ EndsAt(op[1].arg[1]) # {}
  /\ op[1].arg[2] = 0
  /\ Len(pe.Sections) = 3
  /\ ret[1][1].err = ErrSectionDoesNotExist

(***************************************************************************)
(* Open and openPE                                                         *)
(***************************************************************************)
elfMagic == <<127, 69, 76, 70>>
peMagic == <<77, 90>>
maxMagicBufLen == 4
machoMagic1 == <<254, 237, 250, 206>>
machoMagic2 == <<254, 237, 250, 207>>
machoMagic3 == <<206, 250, 237, 254>>
machoMagic4 == <<207, 250, 237, 254>>

ErrNotEnoughBytesRead == "ErrNotEnoughBytesRead"
ErrUnsupportedFile == "ErrUnsupportedFile"
ErrNotExist == "open: no such file or directory"
ErrEOF == "EOF"
ErrParsePE == "error when parsing the PE file"
ErrParse == "error when parsing the file"
ErrOptionalHeader == "unknown optional header type"

\* bytes.HasPrefix
fileMagicMatch(buf, magic) == HasPrefix(buf, magic)

\* f.Read(buf) at the start of a file of these bytes: the count and the error.
\* At the end of the file Read returns 0 and io.EOF.
ReadMagic(bytes) ==
  IF bytes = << >> THEN [n |-> 0, err |-> ErrEOF,
                         buf |-> [i \in 1..maxMagicBufLen |-> 0]]
  ELSE [n |-> IF Len(bytes) < maxMagicBufLen THEN Len(bytes) ELSE maxMagicBufLen,
        err |-> NoError,
        buf |-> [i \in 1..maxMagicBufLen |-> IF i <= Len(bytes) THEN bytes[i] ELSE 0]]

\* the container reader Open picks for the magic in buf
Container(buf) ==
  IF fileMagicMatch(buf, elfMagic) THEN "elf"
  ELSE IF fileMagicMatch(buf, peMagic) THEN "pe"
  ELSE IF \/ fileMagicMatch(buf, machoMagic1) \/ fileMagicMatch(buf, machoMagic2)
          \/ fileMagicMatch(buf, machoMagic3) \/ fileMagicMatch(buf, machoMagic4)
    THEN "macho"
  ELSE "none"

\* Open from os.Open to the choice of the container reader
OpenMagic(b) ==
  IF ~b.exists THEN [next |-> "return", err |-> ErrNotExist]
  ELSE IF ReadMagic(b.bytes).err # NoError
    THEN [next |-> "return", err |-> ReadMagic(b.bytes).err]
  ELSE IF ReadMagic(b.bytes).n < maxMagicBufLen
    THEN [next |-> "return", err |-> ErrNotEnoughBytesRead]
  ELSE IF Container(ReadMagic(b.bytes).buf) = "none"
    THEN [next |-> "return", err |-> ErrUnsupportedFile]
  ELSE [next |-> Container(ReadMagic(b.bytes).buf), err |-> NoError]

\* a thread calls Open
CallOpen(t) ==
  /\ pc[t] = "idle"
  /\ op' = [op EXCEPT ![t] = [name |-> "Open", arg |-> ""]]
  /\ loc' = [loc EXCEPT ![t] = [goroutine |-> "none", err |-> NoError]]
  /\ Goto(t, "open_magic")
  /\ UNCHANGED <<f, bin, pe, ret, runs, first>>

\* os.Open, Seek, Read, Close, and the checks of err and n; then the magic
openMagic(t) ==
  /\ pc[t] = "open_magic"
  /\ LET r == OpenMagic(bin)
     IN CASE r.next = "return" ->
               /\ Return(t, [op |-> "Open", handle |-> Nil, err |-> r.err])
               /\ loc' = loc
          [] r.next = "pe" ->
               /\ Goto(t, "pe_go")
               /\ UNCHANGED <<ret, loc>>
          [] OTHER ->
               /\ Goto(t, "open_other")
               /\ UNCHANGED <<ret, loc>>
  /\ UNCHANGED <<f, bin, pe, op, runs, first>>

\* openELF, openMachO: the reader, or the parser's error
openOther(t) ==
  /\ pc[t] = "open_other"
  /\ IF bin.parse = "ok"
       THEN Goto(t, "open_info") /\ ret' = ret
       ELSE Return(t, [op |-> "Open", handle |-> Nil, err |-> ErrParse])
  /\ UNCHANGED <<f, bin, pe, op, loc, runs, first>>

\* openPE: go func() { if r := recover(); r != nil { err = ... } }()
openPEGo(t) ==
  /\ pc[t] = "pe_go"
  /\ loc' = [loc EXCEPT ![t].goroutine = "started"]
  /\ Goto(t, "pe_parse")
  /\ UNCHANGED <<f, bin, pe, op, ret, runs, first>>

\* the goroutine openPE started: its recover() is not called by a deferred
\* function of a panicking goroutine and returns nil; err is left alone
openPERecover(t) ==
  /\ "goroutine" \in DOMAIN loc[t]
  /\ loc[t].goroutine = "started"
  /\ pc[t] # "panic"
  /\ loc' = [loc EXCEPT ![t].goroutine = "ended"]
  /\ UNCHANGED <<f, bin, pe, pc, op, ret, runs, first>>

\* what a panic raised in openPE comes to: openPE and Open defer nothing, so
\* it leaves them and ends the program
PanicInOpenPE(t) == Goto(t, "panic") /\ ret' = ret

\* openPE: os.Open and pe.NewFile, which returns, fails or panics
openPEParse(t) ==
  /\ pc[t] = "pe_parse"
  /\ CASE bin.parse = "ok" -> Goto(t, "pe_header") /\ ret' = ret
       [] bin.parse = "err" ->
            Return(t, [op |-> "Open", handle |-> Nil, err |-> ErrParsePE])
       [] OTHER -> PanicInOpenPE(t)
  /\ UNCHANGED <<f, bin, pe, op, loc, runs, first>>

\* openPE: the image base by the type of the optional header, and the peFile
openPEHeader(t) ==
  /\ pc[t] = "pe_header"
  /\ IF bin.header \in {"OptionalHeader32", "OptionalHeader64"}
       THEN /\ pe' = NewPEFile(bin.imageBase, << >>, << >>)
            /\ Goto(t, "open_info")
            /\ ret' = ret
       ELSE /\ Return(t, [op |-> "Open", handle |-> Nil, err |-> ErrOptionalHeader])
            /\ pe' = pe
  /\ UNCHANGED <<f, bin, op, loc, runs, first>>

\* Open after the reader: FileInfo, BuildID, BuildInfo and the GoFile; the
\* compiler version of the build information is not carried
openInfo(t) ==
  /\ pc[t] = "open_info"
  /\ f' = NewGoFile(bin.buildInfo, Nil)
  /\ Return(t, [op |-> "Open", handle |-> Some(NewGoFile(bin.buildInfo, Nil)),
                err |-> NoError])
  /\ UNCHANGED <<bin, pe, op, loc, runs, first>>

MagicBytes == {127, 69, 76, 70, 77, 90}

\* a file on disk: its bytes, what the parser of its container makes of it,
\* and the optional header and build information the parser finds
File(bytes, parse, header, bi) ==
  [exists |-> TRUE, bytes |-> bytes, parse |-> parse, header |-> header,
   imageBase |-> 1, buildInfo |-> bi]

\* Files of up to MaxFileLen bytes of the ELF and PE magics, the four Mach-O
\* magics, and no file. Only the parser of debug/pe is taken to panic.
Files ==
  LET short == UNION {[1..n -> MagicBytes] : n \in 0..MaxFileLen}
      macho == {machoMagic1, machoMagic2, machoMagic3, machoMagic4}
  IN {File(b, "ok", "OptionalHeader64", Nil) : b \in short \cup macho}
     \cup {File(b, "err", "OptionalHeader64", Nil) : b \in short \cup macho}
     \cup {File(b, "panic", "OptionalHeader64", Nil) :
             b \in {x \in short : Len(x) < 2 \/ SubSeq(x, 1, 2) = peMagic}}
     \cup {File(peMagic \o <<0, 0>>, "ok", h, bi) :
             h \in {"OptionalHeader32", "none"}, bi \in {Nil, WithModInfo}}
     \cup {[File(<< >>, "ok", "none", Nil) EXCEPT !.exists = FALSE]}

InitOpen ==
  /\ bin \in Files
  /\ f = Nil
  /\ pe = Nil
  /\ pc = [t \in Threads |-> "idle"]
  /\ op = [t \in Threads |-> [name |-> "", arg |-> ""]]
  /\ loc = [t \in Threads |-> LocInit]
  /\ ret = [t \in Threads |-> Nil]
  /\ runs = [moduledata |-> 0, packages |-> 0, enum |-> 0, symtab |-> 0]
  /\ first = Nil

NextOpen ==
  \/ CallOpen(1)
  \/ openMagic(1)
  \/ openOther(1)
  \/ openPEGo(1)
  \/ openPERecover(1)
  \/ openPEParse(1)
  \/ openPEHeader(1)
  \/ openInfo(1)

SpecOpen == InitOpen /\ [][NextOpen]_vars

\* C3: a panic of the parser inside openPE does not leave openPE and Open and
\* does not end the program: Open returns, with an error that is not nil.
C3_PanicBecomesError ==
  /\ pc[1] # "panic"
  /\ Returned(1, {"Open"}) /\ bin.parse = "panic" /\ Len(bin.bytes) >= maxMagicBufLen =>
       ret[1][1].err # NoError /\ ret[1][1].handle = Nil

\* C5: Open of a file of fewer than 4 bytes, the empty file too, reaches no
\* container reader and returns ErrNotEnoughBytesRead and no handle.
C5_ShortFile ==
  bin.exists /\ Len(bin.bytes) < maxMagicBufLen =>
    /\ pc[1] \in {"idle", "open_magic", "returned"}
    /\ Returned(1, {"Open"}) =>
         ret[1][1].err = ErrNotEnoughBytesRead /\ ret[1][1].handle = Nil

(***************************************************************************)
(* The two classifiers, package by package                                 *)
(***************************************************************************)
\* package names that meet every rule of the two classifiers
PkgNames ==
  { NoStr,
    S_main,
    <<"f", "m", "t">>,
    <<"f", "m", "t", ".", "a">>,
    S_type,
    <<"t", "y", "p", "e", ".", ".", "e">>,
    <<"f", "m", "t", "/", "g", "o", "l", "a", "n", "g", ".", "o", "r", "g", "/", "x">>,
    <<"_", "c", "g", "o", "_", "a">>,
    <<"x", "_", "c", "g", "o", "_", "a">>,
    S_x86,
    <<"v", "e", "n", "d", "o", "r", "/", "q">>,
    <<"g", "i", "t", "h", "u", "b", ".", "c", "o", "m", "/", "u">>,
    <<"z", "z">>,
    <<"c">>,
    <<"c", "/", "s">>,
    <<"v", "/", "x">>,
    <<"z">> }

\* package file paths: none, generated, in the module cache, in a vendor
\* folder of main, of its parent and of its grandparent, below and beside main
PkgFilepaths ==
  { NoStr,
    S_autogenerated,
    <<"/", "m", "/", "x", "@", "v", "1">>,
    <<"/", "a", "/", "p", "/", "c", "/", "v", "e", "n", "d", "o", "r", "/", "q">>,
    <<"/", "a", "/", "p", "/", "v", "e", "n", "d", "o", "r", "/", "q">>,
    <<"/", "a", "/", "v", "e", "n", "d", "o", "r", "/", "q">>,
    <<"/", "a", "/", "p", "/", "c", "/", "s">>,
    <<"/", "a", "/", "p", "/", "s">>,
    <<"/", "a", "/", "x">>,
    <<"/", "g", "/", "r", "u", "n", "t", "i", "m", "e">>,
    <<"/", "q", "/", "z", "z">>,
    <<"/", "k", "/", "c", "/", "w">>,
    <<"/", "w", "/", "g", "i", "t", "h", "u", "b", ".", "c", "o", "m", "/", "u">>,
    <<"c", "/", "d">>,
    <<"v", "/", "x", "/", "y">>,
    <<"z", "/", "k">>,
    <<"/", "a", "/", "p", "/", "c", "-", "x", "/", "w">> }

\* file paths of the main package
MainFilepaths ==
  { <<"/", "a", "/", "p", "/", "c">>,
    S_commandLineArguments,
    <<"/", "a", "/", "p", "/", "c", "/">>,
    NoStr }

\* module information: the two of the binaries; a build path without a main
\* module; a main module without a build path, with a dependency of no path
ClassifyModInfos ==
  ModInfos \cup
  { [Path |-> <<"c">>, Main |-> [Path |-> NoStr], Deps |-> << >>],
    [Path |-> NoStr, Main |-> [Path |-> <<"z">>],
     Deps |-> << [Path |-> <<"v">>, Version |-> "(devel)"],
                 [Path |-> <<"v", "/", "x">>, Version |-> "v1"] >>],
    [Path |-> NoStr, Main |-> [Path |-> NoStr],
     Deps |-> << [Path |-> NoStr, Version |-> "v1"] >>] }

Classifiers ==
  {NewModPackageClassifier(m) : m \in ClassifyModInfos}
  \cup {NewPathPackageClassifier(m) : m \in MainFilepaths}

\* enumPackages hands a package to the classifier it picked
CallClassify(t) ==
  /\ pc[t] = "idle"
  /\ \E n \in PkgNames, fp \in PkgFilepaths :
       LET pkg == [NewPackage EXCEPT !.Name = n, !.Filepath = fp]
       IN /\ op' = [op EXCEPT ![t] = [name |-> "Classify", arg |-> pkg]]
          /\ ret' = [ret EXCEPT ![t] = Some([val |-> Classify(loc[t].classifier[1], pkg)])]
  /\ pc' = [pc EXCEPT ![t] = "returned"]
  /\ UNCHANGED <<f, bin, pe, loc, runs, first>>

InitClassify ==
  /\ f = NewGoFile(Nil, Nil)
  /\ bin = [funcs |-> << >>, moduledataErr |-> NoError, pclntabErr |-> NoError,
            version |-> Nil]
  /\ pe = PEInRange
  /\ pc = [t \in Threads |-> "idle"]
  /\ op = [t \in Threads |-> [name |-> "", arg |-> ""]]
  /\ \E c \in Classifiers :
       loc = [t \in Threads |-> [LocInit EXCEPT !.classifier = Some(c)]]
  /\ ret = [t \in Threads |-> Nil]
  /\ runs = [moduledata |-> 0, packages |-> 0, enum |-> 0, symtab |-> 0]
  /\ first = Nil

NextClassify ==
  \/ CallClassify(1)
  \/ Resume(1)

SpecClassify == InitClassify /\ [][NextClassify]_vars

\* the class of the first rule of the list that matches; a rule is a pair of
\* what it asks and the class it gives
FirstMatch(rules) ==
  rules[CHOOSE i \in 1..Len(rules) : rules[i][1] /\ \A j \in 1..(i - 1) : ~rules[j][1]][2]

\* s is a prefix of the file path or of the name of the package
Prefixes(s, pkg) == HasPrefix(pkg.Filepath, s) \/ HasPrefix(pkg.Name, s)

\* the versions of the dependencies whose path is a prefix of the package's
\* file path or name, in the recorded order
DepVersions(m, pkg) ==
  LET hit(d) == Prefixes(d.Path, pkg)
  IN [k \in 1..Len(SelectSeq(m.Deps, hit)) |-> SelectSeq(m.Deps, hit)[k].Version]

GeneratedSentinel(pkg) ==
  \/ pkg.Filepath = S_autogenerated
  \/ pkg.Name = NoStr /\ pkg.Filepath = NoStr
  \/ pkg.Filepath = NoStr /\ pkg.Name \in {S_x86, S_i686}

CgoName(pkg) == HasPrefix(pkg.Name, S_cgo) \/ HasPrefix(pkg.Name, S_xcgo)

\* the seven rules of the module-info classifier; guarded says whether rule
\* 3 asks for a path that is not empty
ModRules(m, pkg, guarded) ==
  << <<IsStandardLibrary(pkg.Name), ClassSTD>>,
     <<pkg.Name = S_main, ClassMain>>,
     <<\/ (guarded => m.Path # NoStr) /\ Prefixes(m.Path, pkg)
       \/ (guarded => m.Main.Path # NoStr) /\ Prefixes(m.Main.Path, pkg), ClassMain>>,
     <<DepVersions(m, pkg) # << >>,
       IF DepVersions(m, pkg) # << >> /\ DepVersions(m, pkg)[1] = "(devel)"
         THEN ClassMain ELSE ClassVendor>>,
     <<GeneratedSentinel(pkg), ClassGenerated>>,
     <<CgoName(pkg), ClassSTD>>,
     <<TRUE, ClassVendor>> >>

\* Classify of the module-info classifier has returned
ModClassified ==
  Returned(1, {"Classify"}) /\ "modInfo" \in DOMAIN loc[1].classifier[1]

\* C12 as stated: ModPackageClassifier.Classify returns the class of the
\* first of the seven rules that matches, rule 3 asking only for a prefix,
\* and never Unknown.
C12_FirstRuleOfSeven ==
  ModClassified =>
    /\ ret[1][1].val = FirstMatch(ModRules(loc[1].classifier[1].modInfo, op[1].arg, FALSE))
    /\ ret[1][1].val # ClassUnknown

\* C12, amended: ModPackageClassifier.Classify returns the class of the first
\* of the seven rules that matches, where rule 3 matches the build path and
\* the main-module path only when the path is not empty; it never returns
\* Unknown.
C12_FirstRuleNonEmptyPath ==
  ModClassified =>
    /\ ret[1][1].val = FirstMatch(ModRules(loc[1].classifier[1].modInfo, op[1].arg, TRUE))
    /\ ret[1][1].val # ClassUnknown

\* C12's case: with module information of no build path and no main-module
\* path, a package that only the last rule matches has come back as Vendor
C12_Witness ==
  /\ ModClassified
  /\ loc[1].classifier[1].modInfo.Path = NoStr
  /\ loc[1].classifier[1].modInfo.Main.Path = NoStr
  /\ loc[1].classifier[1].modInfo.Deps = << >>
  /\ op[1].arg.Name = <<"z", "z">>
  /\ ret[1][1].val = ClassVendor

\* the sixteen rules of the path-based classifier for the main file path
\* main, rule 8 with the main folders given
PathRules(main, pkg, folders) ==
  << <<pkg.Name = S_type \/ HasPrefix(pkg.Name, S_typeDots), ClassGenerated>>,
     <<IsStandardLibrary(pkg.Name), ClassSTD>>,
     <<GeneratedSentinel(pkg), ClassGenerated>>,
     <<Contains(pkg.Name, S_slashGolangOrg)
         /\ IsStandardLibrary(SubSeq(pkg.Name, 1, Index(pkg.Name, S_slashGolangOrg) - 1)),
       ClassSTD>>,
     <<CgoName(pkg), ClassSTD>>,
     <<Contains(pkg.Filepath, S_atv), ClassVendor>>,
     <<\E d \in {main, PathDir(main), PathDir(PathDir(main))} :
         HasPrefix(pkg.Filepath, d \o S_slashVendorSlash), ClassVendor>>,
     <<PathDir(pkg.Filepath) \in folders, ClassMain>>,
     <<HasPrefix(pkg.Name, S_vendorSlash), ClassVendor>>,
     <<\E i \in 1..Len(knownRepos) :
         HasPrefix(pkg.Name, knownRepos[i]) /\ Contains(pkg.Filepath, knownRepos[i]),
       ClassVendor>>,
     <<~Contains(pkg.Filepath, S_vendorSlash)
         /\ PathBase(PathDir(pkg.Filepath)) = PathBase(main), ClassMain>>,
     <<pkg.Name = NoStr /\ PathBase(pkg.Filepath) = S_runtime, ClassSTD>>,
     <<HasPrefix(pkg.Filepath, main), ClassMain>>,
     <<pkg.Name # NoStr /\ ~Contains(pkg.Name, <<"/">>) /\ Contains(main, pkg.Name),
       ClassMain>>,
     <<main = S_commandLineArguments, ClassMain>>,
     <<TRUE, ClassUnknown>> >>

\* Classify of the path-based classifier has returned
PathClassified ==
  Returned(1, {"Classify"}) /\ "mainFolders" \in DOMAIN loc[1].classifier[1]

MainOf == loc[1].classifier[1].mainFilepath

ErrInvalidGoVersion == "ErrInvalidGoVersion"

\* the version strings the library knows
goversions == {"go1.12", "go1.20", "go1.21"}

\* ResolveGoVersion: the version of the table, or nil
ResolveGoVersion(version) == IF version \in goversions THEN Some(version) ELSE Nil

\* the strings SetGoVersion is called with: two known ones and one not known
VersionStrings == {"go1.12", "go1.21", "go0.0"}

\* GetCompilerVersion
GetCompilerVersion(t) ==
  /\ Idle(t)
  /\ f' = ensureCompilerVersion(f)
  /\ op' = [op EXCEPT ![t] = [name |-> "GetCompilerVersion", arg |-> ""]]
  /\ Return(t, [op |-> "GetCompilerVersion",
                val |-> IF ensureCompilerVersion(f).versionError # NoError
                          THEN Nil ELSE ensureCompilerVersion(f).goversion,
                err |-> ensureCompilerVersion(f).versionError])
  /\ UNCHANGED <<bin, pe, loc, runs, first>>

\* SetGoVersion
SetGoVersion(t) ==
  /\ Idle(t)
  /\ \E version \in VersionStrings :
       /\ op' = [op EXCEPT ![t] = [name |-> "SetGoVersion", arg |-> version]]
       /\ IF ResolveGoVersion(version) = Nil
            THEN /\ Return(t, [op |-> "SetGoVersion", err |-> ErrInvalidGoVersion])
                 /\ UNCHANGED <<f, first>>
            ELSE /\ f' = [f EXCEPT !.goversion = ResolveGoVersion(version)]
                 /\ first' = ResolveGoVersion(version)
                 /\ Return(t, [op |-> "SetGoVersion", err |-> NoError])
  /\ UNCHANGED <<bin, pe, loc, runs>>

\* a GoFile as Open leaves it, with or without the compiler version of the
\* build information, over a binary in which a version is found or not and
\* moduledata is found or not
InitVersion ==
  /\ \E gv \in {Nil, Some("go1.21")}, v \in {Nil, Some("go1.20")},
        mdErr \in {NoError, ErrNoModuledata} :
       /\ f = NewGoFile(Nil, gv)
       /\ bin = [funcs |-> << >>, moduledataErr |-> mdErr, pclntabErr |-> NoError,
                 version |-> v]
  /\ pe = PEInRange
  /\ pc = [t \in Threads |-> "idle"]
  /\ op = [t \in Threads |-> [name |-> "", arg |-> ""]]
  /\ loc = [t \in Threads |-> LocInit]
  /\ ret = [t \in Threads |-> Nil]
  /\ runs = [moduledata |-> 0, packages |-> 0, enum |-> 0, symtab |-> 0]
  /\ first = Nil

\* one thread calls GetCompilerVersion, SetGoVersion and Moduledata
NextVersion ==
  \/ GetCompilerVersion(1)
  \/ SetGoVersion(1)
  \/ Call(1, "Moduledata")
  \/ initModuleDataFast(1)
  \/ initModuleDataLock(1)
  \/ initModuleDataSlow(1)
  \/ initModuleDataVersion(1)
  \/ initModuleDataExtract(1)
  \/ initModuleDataDone(1)
  \/ initModuleDataUnlock(1)
  \/ initModuleDataReturn(1)

SpecVersion == InitVersion /\ [][NextVersion]_vars

\* C14: once SetGoVersion(v) has returned nil, GetCompilerVersion returns the
\* version that SetGoVersion stored last, with a nil error, also when the
\* detection of the version had failed before.
C14_ForcedVersionReturned ==
  Returned(1, {"GetCompilerVersion"}) /\ first # Nil =>
    ret[1][1].err = NoError /\ ret[1][1].val = first

====
